---- MODULE Spec2Model ----
(***************************************************************************)
(* SF Transit Tracker: the fetch / dedup / publish cycle of                *)
(* TransitDataFetcher, the BackgroundUpdater loop and the Socket.IO        *)
(* connect / disconnect handlers that start and stop it.                   *)
(*                                                                         *)
(* Strings whose characters matter (vehicle ids) are sequences of          *)
(* one-character strings, so that str.replace and str.startswith are       *)
(* computed character by character as Python computes them.                *)
(***************************************************************************)
EXTENDS Integers, Sequences, FiniteSets, TLC

(* ------------------------------ bounds -------------------------------- *)
\* handler threads the Socket.IO server runs at the same time
NHandlers == 2
\* update-loop threads alive at the same time
MaxLoops == 2
\* concurrent REST requests
NReaders == 1
\* fetch_all_data invocations in one behaviour
MaxCycles == 3
\* clients connected at the transport level at the same time
MaxClients == 2
\* largest value active_connections is let to take (lost decrements make it drift)
MaxCount == 2

(* ------------------------------ strings ------------------------------- *)
PREFIX_SF == <<"s", "f", "-">>
PREFIX_RG == <<"r", "g", "-">>
PREFIX_BART == <<"b", "a", "r", "t", "-">>

\* str.startswith
StartsWith(s, p) == Len(s) >= Len(p) /\ SubSeq(s, 1, Len(p)) = p

\* str.replace(old, ''): every non-overlapping occurrence, scanning from the left
RECURSIVE Replace(_, _)
Replace(s, old) ==
    IF Len(s) < Len(old) THEN s
    ELSE IF SubSeq(s, 1, Len(old)) = old
         THEN Replace(SubSeq(s, Len(old) + 1, Len(s)), old)
         ELSE <<Head(s)>> \o Replace(Tail(s), old)

(* ------------------------ upstream responses -------------------------- *)
\* native vehicle ids an upstream feed may report
NativeIds == { <<"1">>, <<"2">>, <<"s", "f", "-", "1">> }

\* a GTFS entity: native vehicle id and the sub-agency code that prefixes its
\* route_id ("" when the route_id carries no "AGENCY:" prefix)
Entity(vid, sub) == [vid |-> vid, sub |-> sub]

\* a 511 sub-feed response: HTTP 200 with entities, or a failure
\* (non-200, decode error or transport exception)
Ok511(es) == [ok |-> TRUE, entities |-> es]
Fail511 == [ok |-> FALSE, entities |-> <<>>]
\* no request made (source not configured)
NoRequest == [ok |-> FALSE, entities |-> <<>>, skipped |-> TRUE]

\* Vehicle dataclass, the fields the merge and dedup read
Vehicle(id, agency) == [id |-> id, agency |-> agency]

\* _get_agency_name: static table, unknown codes pass through
AgencyName(code) ==
    CASE code = "SF" -> "SFMTA"
      [] code = "RG" -> "Regional"
      [] code = "CT" -> "Caltrain"
      [] OTHER -> code

\* one prefix for both sub-feeds
OnePrefix(agency) == PREFIX_RG

\* str.lower() of the agency code followed by '-'
AgencyPrefix(agency) == IF agency = "SF" THEN PREFIX_SF ELSE PREFIX_RG

\* _parse_gtfs_vehicle: id is the feed's prefix plus the native id; for the RG
\* feed the agency comes from the route_id's "AGENCY:" prefix, else 'RG'
ParseGtfsVehicle(e, agency) ==
    LET actual_agency == IF agency = "RG"
                         THEN (IF e.sub # "" THEN e.sub ELSE "RG")
                         ELSE agency
    IN  Vehicle(AgencyPrefix(agency) \o e.vid, AgencyName(actual_agency))

\* the vehicles one agency sub-feed contributes: none when the request failed
AgencyVehicles(resp, agency) ==
    IF resp.ok
    THEN [i \in 1..Len(resp.entities) |-> ParseGtfsVehicle(resp.entities[i], agency)]
    ELSE <<>>

\* fetch_511_gtfs_data: SF then RG, each isolated by its own try/except
Fetch511(rSF, rRG) == AgencyVehicles(rSF, "SF") \o AgencyVehicles(rRG, "RG")

\* fetch_bart_data: the synthesized trains, or [] on any failure
OkBart(vs) == [ok |-> TRUE, vehicles |-> vs]
FailBart == [ok |-> FALSE, vehicles |-> <<>>]
FetchBart(resp) == IF resp.ok THEN resp.vehicles ELSE <<>>

(* ------------------- the 511 client, field by field ------------------- *)
\* the agency codes fetch_511_gtfs_data asks for, in its order
AGENCY_SF == <<"S", "F">>
AGENCY_RG == <<"R", "G">>
agencies == << AGENCY_SF, AGENCY_RG >>

UpperCase == << "A", "B", "C", "D", "E", "F", "G", "H", "I", "J", "K", "L", "M",
                "N", "O", "P", "Q", "R", "S", "T", "U", "V", "W", "X", "Y", "Z" >>
LowerCase == << "a", "b", "c", "d", "e", "f", "g", "h", "i", "j", "k", "l", "m",
                "n", "o", "p", "q", "r", "s", "t", "u", "v", "w", "x", "y", "z" >>

\* str.lower
LowerChar(c) ==
    IF \E i \in 1..Len(UpperCase) : UpperCase[i] = c
    THEN LowerCase[CHOOSE i \in 1..Len(UpperCase) : UpperCase[i] = c]
    ELSE c
Lower(s) == [i \in 1..Len(s) |-> LowerChar(s[i])]

\* sub in s
Contains(s, sub) ==
    \E i \in 1..(Len(s) - Len(sub) + 1) : SubSeq(s, i, i + Len(sub) - 1) = sub

\* the characters as one Python str
RECURSIVE Join(_)
Join(cs) == IF cs = <<>> THEN "" ELSE Head(cs) \o Join(Tail(cs))

\* a split at the last ':' (str.rsplit) instead of the first
SplitLast(route_id) ==
    LET at == CHOOSE i \in 1..Len(route_id) :
                 route_id[i] = ":" /\ \A j \in (i + 1)..Len(route_id) : route_id[j] # ":"
    IN  [agency_code |-> SubSeq(route_id, 1, at - 1),
         route_part |-> SubSeq(route_id, at + 1, Len(route_id))]

\* agency_code, route_part = route_id.split(':', 1), for a route_id holding a ':'
SplitOnce(route_id) ==
    LET at == CHOOSE i \in 1..Len(route_id) :
                 route_id[i] = ":" /\ \A j \in 1..(i - 1) : route_id[j] # ":"
    IN  [agency_code |-> SubSeq(route_id, 1, at - 1),
         route_part |-> SubSeq(route_id, at + 1, Len(route_id))]

\* _get_vehicle_type
GetVehicleType(route_id, agency) ==
    IF agency = AGENCY_SF
    THEN IF route_id \in { <<"J">>, <<"K">>, <<"L">>, <<"M">>, <<"N">>, <<"T">> }
         THEN "light-rail"
         ELSE IF route_id \in { <<"P", "H">>, <<"P", "M">>, <<"C", "A">> }
              THEN "cable-car"
              ELSE "muni-bus"
    ELSE IF agency = <<"G", "G">>
    THEN IF Contains(Lower(route_id), <<"f", "e", "r", "r", "y">>) THEN "ferry" ELSE "bus"
    ELSE IF agency \in { <<"C", "T">>, <<"A", "M">>, <<"C", "E">>, <<"S", "A">> }
    THEN "train"
    ELSE IF agency = <<"S", "B">>
    THEN "ferry"
    ELSE IF agency \in { <<"3", "D">>, <<"C", "C">>, <<"W", "C">> }
    THEN IF \/ Contains(Lower(route_id), <<"e", "x", "p", "r", "e", "s", "s">>)
            \/ Contains(Lower(route_id), <<"x">>)
         THEN "express-bus"
         ELSE "bus"
    ELSE "bus"

\* _format_route
FormatRoute(route_id) == Replace(Replace(route_id, <<"_">>), <<"-">>)

\* a VehiclePosition message of the feed, inside its FeedEntity: which of the
\* optional fields are set, and their values (protobuf gives an unset string
\* as '')
FeedEntity(has_vehicle, has_position, id, label, has_route_id, route_id, latitude, longitude) ==
    [has_vehicle |-> has_vehicle, has_position |-> has_position, id |-> id, label |-> label,
     has_route_id |-> has_route_id, route_id |-> route_id,
     latitude |-> latitude, longitude |-> longitude]

\* Vehicle dataclass, the fields _parse_gtfs_vehicle computes from the message
VehicleRecord(id, type, route, lat, lng, agency) ==
    [id |-> id, type |-> type, route |-> route, lat |-> lat, lng |-> lng, agency |-> agency]

\* _parse_gtfs_vehicle, lines 84-96: trip.route_id, else vehicle.label, else vehicle.id
RouteIdOf(vehicle_data) ==
    IF vehicle_data.has_route_id THEN vehicle_data.route_id
    ELSE IF vehicle_data.label # <<>> THEN vehicle_data.label
    ELSE vehicle_data.id

\* _parse_gtfs_vehicle, lines 98-110: the agency and route the RG feed's
\* "AGENCY:ROUTE" route_id stands for
ActualAgency(route_id, agency) ==
    IF agency = AGENCY_RG
    THEN IF Contains(route_id, <<":">>)
         THEN [actual_agency |-> SplitOnce(route_id).agency_code,
               route_id |-> SplitOnce(route_id).route_part]
         ELSE [actual_agency |-> AGENCY_RG, route_id |-> route_id]
    ELSE [actual_agency |-> agency, route_id |-> route_id]

\* _parse_gtfs_vehicle: no field access of it raises, so it never returns None
ParseVehiclePosition(vehicle_data, agency) ==
    LET resolved == ActualAgency(RouteIdOf(vehicle_data), agency)
    IN  VehicleRecord(Lower(agency) \o <<"-">> \o vehicle_data.id,
                      GetVehicleType(resolved.route_id, resolved.actual_agency),
                      FormatRoute(resolved.route_id),
                      vehicle_data.latitude, vehicle_data.longitude,
                      AgencyName(Join(resolved.actual_agency)))

\* what session.get and ParseFromString do with one sub-feed request: get
\* raises, or returns a status code and a body that decodes to entities or not
Response(raised, status_code, decodable, entity) ==
    [raised |-> raised, status_code |-> status_code, decodable |-> decodable, entity |-> entity]

\* the body of the try block reaches line 69
Succeeded(resp) == ~resp.raised /\ resp.status_code = 200 /\ resp.decodable

\* if entity.HasField('vehicle') and entity.vehicle.HasField('position')
Usable(e) == e.has_vehicle /\ e.has_position

\* lines 61-67: the vehicles one decoded feed appends
ParseFeed(entity, agency) ==
    LET kept == SelectSeq(entity, Usable)
    IN  [i \in 1..Len(kept) |-> ParseVehiclePosition(kept[i], agency)]

\* one pass of the for loop's try block
TryAgency(resp, agency) == IF Succeeded(resp) THEN ParseFeed(resp.entity, agency) ELSE <<>>

\* a try block around the whole for loop: the first failure ends the loop
ExceptEndsLoop(i) == Len(agencies) + 1

\* the except block is inside the loop body: the for goes on with the next agency
AfterExcept511(i) == i + 1

(* ----------------------------- id-keyed map --------------------------- *)
EmptyMap == [k \in {} |-> Vehicle(<<>>, "")]

\* all_vehicles[vehicle.id] = vehicle
Put(m, v) == [k \in DOMAIN m \cup {v.id} |-> IF k = v.id THEN v ELSE m[k]]

\* for vehicle in vehicles: all_vehicles[vehicle.id] = vehicle
RECURSIVE MergeList(_, _)
MergeList(m, vs) == IF vs = <<>> THEN m ELSE MergeList(Put(m, Head(vs)), Tail(vs))

\* sf_vehicle_ids: for every SFMTA vehicle, its id with 'sf-' replaced by ''
SfVehicleIds(vs) ==
    { Replace(vs[i].id, PREFIX_SF) : i \in { j \in 1..Len(vs) : vs[j].agency = "SFMTA" } }

(* ------------------------------- state -------------------------------- *)
VARIABLES
    api_keys,            \* TransitDataFetcher.api_keys
    vehicles,            \* TransitDataFetcher.vehicles: reference to a dict object
    last_update,         \* TransitDataFetcher.last_update: NoTime, or the cycle whose now() it holds
    heap,                \* the dict objects: reference -> id-keyed map
    is_running,          \* BackgroundUpdater.is_running
    active_connections,  \* websocket.active_connections
    pc,                  \* position of every thread
    all_vehicles,        \* fetch_all_data local: reference of the dict being built
    sf_vehicle_ids,      \* fetch_all_data local
    vehicles_to_remove,  \* fetch_all_data local
    got,                 \* the upstream responses the thread's current cycle received
    loaded,              \* handler / reader locals: values read from shared state
    lastEmit,            \* the Socket.IO event emitted, or REST response returned, by the last step
    cycles,              \* fetch_all_data calls started so far
    pub,                 \* reference -> the map as it was when self.vehicles was set to it
    connected,           \* clients connected at the transport level
    hist,                \* history: which phase of the scheduler's life the behaviour is in
    responses,           \* what 511.org answers to the SF and the RG request of a client call
    frame,               \* the frame of the client call followed on its own: position, locals
    hash                 \* the process's str hash (PYTHONHASHSEED), on the strings synthesis hashes

vars == << api_keys, vehicles, last_update, heap, is_running, active_connections, pc,
           all_vehicles, sf_vehicle_ids, vehicles_to_remove, got, loaded, lastEmit,
           cycles, pub, connected, hist, responses, frame, hash >>

Handlers == { <<"h", i>> : i \in 1..NHandlers }
Loops == { <<"l", i>> : i \in 1..MaxLoops }
Readers == { <<"r", i>> : i \in 1..NReaders }
Threads == Handlers \cup Loops \cup Readers

NoRef == -1
NoTime == -1
Refs == 0..MaxCycles

PLACEHOLDER_511 == "YOUR_511_API_KEY"
PLACEHOLDER_BART == "YOUR_BART_API_KEY"

NoGot == [sf |-> NoRequest, rg |-> NoRequest, bart |-> NoRequest]
NoLoaded == [count |-> -1, ref |-> NoRef, map |-> EmptyMap, ts |-> NoTime]
NoEvent == [ev |-> "none"]
\* no call of fetch_511_gtfs_data is being followed
NoFrame == [pc |-> "none", i |-> 0, vehicles |-> <<>>, requested |-> <<>>]
\* no string has been hashed
NoHash == <<>>

\* hist: "initial" until the first connect is dispatched; "first" from then until
\* another connect, a disconnect or the end of an interval wait; "quiet" from the
\* write that takes active_connections from 1 to 0 (no connect handler running)
\* until the next connect is dispatched; "busy" otherwise

\* the dict objects still referred to (a reader's until it has responded);
\* CPython frees the others
Live(v, av, ld) == {v} \cup { av[t] : t \in Threads } \cup { ld[t].ref : t \in Threads }
Collect(h, live) == [r \in Refs |-> IF r \in live THEN h[r] ELSE EmptyMap]
Keep(p, live) == [r \in DOMAIN p \cap live |-> p[r]]

\* a force_update that would call fetch_all_data again after a failure
RetryOnRaise(t) == IF t \in Loops THEN "loop_except" ELSE "fu_call"

\* fetch_all_data returns to, or raises into, the caller's try block
ReturnTo(t) == IF t \in Loops THEN "loop_emit" ELSE "fu_emit"
RaiseTo(t) == IF t \in Loops THEN "loop_except" ELSE "fu_except"

\* the alternative the code does not take: patching the published dict in place
PatchInPlace == vehicles

\* all_vehicles = {}: a fresh dict object
NewDict == cycles + 1

\* a call of fetch_all_data by thread t begins
EnterFetch(t) ==
    /\ cycles < MaxCycles
    /\ cycles' = cycles + 1
    /\ all_vehicles' = [all_vehicles EXCEPT ![t] = NewDict]
    /\ sf_vehicle_ids' = [sf_vehicle_ids EXCEPT ![t] = {}]
    /\ vehicles_to_remove' = [vehicles_to_remove EXCEPT ![t] = {}]
    /\ got' = [got EXCEPT ![t] = NoGot]
    /\ pc' = [pc EXCEPT ![t] = "fa_sources"]

\* the thread leaves fetch_all_data by an exception: its locals are gone
LeaveByRaise(t) ==
    /\ pc' = [pc EXCEPT ![t] = RaiseTo(t)]
    /\ all_vehicles' = [all_vehicles EXCEPT ![t] = NoRef]
    /\ sf_vehicle_ids' = [sf_vehicle_ids EXCEPT ![t] = {}]
    /\ vehicles_to_remove' = [vehicles_to_remove EXCEPT ![t] = {}]
    /\ got' = [got EXCEPT ![t] = NoGot]

\* the list fetch_all_data gets for a source: None when the key lookup raises
\* KeyError, [] when the key is the placeholder (no request), else the client's result
Source511(rSF, rRG) ==
    [raised |-> "SF_511" \notin DOMAIN api_keys,
     vehicles |-> IF "SF_511" \in DOMAIN api_keys /\ api_keys["SF_511"] # PLACEHOLDER_511
                  THEN Fetch511(rSF, rRG) ELSE <<>>]
\* fetch_bart_data without its try/except: a failed request would escape
SourceBartUnisolated(rB) ==
    [raised |-> "BART" \notin DOMAIN api_keys \/ ~rB.ok,
     vehicles |-> IF "BART" \in DOMAIN api_keys /\ api_keys["BART"] # PLACEHOLDER_BART
                  THEN FetchBart(rB) ELSE <<>>]
SourceBart(rB) ==
    [raised |-> "BART" \notin DOMAIN api_keys,
     vehicles |-> IF "BART" \in DOMAIN api_keys /\ api_keys["BART"] # PLACEHOLDER_BART
                  THEN FetchBart(rB) ELSE <<>>]

Requested511 == "SF_511" \in DOMAIN api_keys /\ api_keys["SF_511"] # PLACEHOLDER_511
RequestedBart == "BART" \in DOMAIN api_keys /\ api_keys["BART"] # PLACEHOLDER_BART

\* fetch_all_data up to the dedup pass: the 511 requests and merge, the SF id
\* set, the BART request and merge, all on the private dict
FetchAllSources(t, SFResponses, RGResponses, BartResponses) ==
    /\ pc[t] = "fa_sources"
    /\ \E rSF \in SFResponses, rRG \in RGResponses, rB \in BartResponses :
          LET s511 == Source511(rSF, rRG)
              sBart == SourceBart(rB)
          IN  IF s511.raised \/ sBart.raised
              THEN /\ LeaveByRaise(t)
                   /\ heap' = Collect([heap EXCEPT ![all_vehicles[t]] =
                                          IF s511.raised THEN @ ELSE MergeList(@, s511.vehicles)],
                                      Live(vehicles, all_vehicles', loaded))
              ELSE /\ heap' = [heap EXCEPT ![all_vehicles[t]] =
                                  MergeList(MergeList(@, s511.vehicles), sBart.vehicles)]
                   /\ sf_vehicle_ids' = [sf_vehicle_ids EXCEPT ![t] = SfVehicleIds(s511.vehicles)]
                   /\ got' = [got EXCEPT ![t] =
                                [sf |-> IF Requested511 THEN rSF ELSE NoRequest,
                                 rg |-> IF Requested511 THEN rRG ELSE NoRequest,
                                 bart |-> IF RequestedBart THEN rB ELSE NoRequest]]
                   /\ pc' = [pc EXCEPT ![t] = "fa_dedup"]
                   /\ UNCHANGED << all_vehicles, vehicles_to_remove >>
    /\ lastEmit' = NoEvent
    /\ UNCHANGED << responses, frame, hash >>
    /\ UNCHANGED << api_keys, vehicles, last_update, is_running, active_connections, loaded,
                    cycles, pub, connected, hist >>

\* the ids the dedup pass collects: rg- records whose id, with 'rg-' replaced
\* by '', is in the SF id set
VehiclesToRemove(m, sfids) ==
    { k \in DOMAIN m : StartsWith(m[k].id, PREFIX_RG) /\ Replace(m[k].id, PREFIX_RG) \in sfids }

\* a removal loop that stops after the first collected id
DeleteFirst(m, ks) ==
    IF ks = {} THEN m ELSE [k \in DOMAIN m \ { CHOOSE x \in ks : TRUE } |-> m[k]]

\* del all_vehicles[vehicle_id] for every collected id
DeleteAll(m, ks) == [k \in DOMAIN m \ ks |-> m[k]]

\* the dedup pass
Dedup(m, sfids) == DeleteAll(m, VehiclesToRemove(m, sfids))

\* fetch_all_data, dedup part
FetchAllDedup(t) ==
    /\ pc[t] = "fa_dedup"
    /\ vehicles_to_remove' = [vehicles_to_remove EXCEPT
                                ![t] = VehiclesToRemove(heap[all_vehicles[t]], sf_vehicle_ids[t])]
    /\ heap' = [heap EXCEPT ![all_vehicles[t]] = Dedup(@, sf_vehicle_ids[t])]
    /\ pc' = [pc EXCEPT ![t] = "fa_pub_vehicles"]
    /\ lastEmit' = NoEvent
    /\ UNCHANGED << responses, frame, hash >>
    /\ UNCHANGED << api_keys, vehicles, last_update, is_running, active_connections,
                    all_vehicles, sf_vehicle_ids, got, loaded, cycles, pub, connected, hist >>

\* self.vehicles = all_vehicles (the dict it replaces is freed unless a thread
\* still holds it)
PublishVehicles(t) ==
    /\ pc[t] = "fa_pub_vehicles"
    /\ vehicles' = all_vehicles[t]
    /\ LET live == Live(all_vehicles[t], all_vehicles, loaded)
           published == [r \in DOMAIN pub \cup {all_vehicles[t]} |->
                           IF r = all_vehicles[t] THEN heap[r] ELSE pub[r]]
       IN  /\ heap' = Collect(heap, live)
           /\ pub' = Keep(published, live)
    /\ pc' = [pc EXCEPT ![t] = "fa_pub_time"]
    /\ lastEmit' = NoEvent
    /\ UNCHANGED << responses, frame, hash >>
    /\ UNCHANGED << api_keys, last_update, is_running, active_connections, all_vehicles,
                    sf_vehicle_ids, vehicles_to_remove, got, loaded, cycles, connected, hist >>

\* datetime.now() taken by the cycle that built dict object ref
Now(ref) == ref

\* self.last_update = datetime.now(); return all_vehicles
PublishTime(t) ==
    /\ pc[t] = "fa_pub_time"
    /\ last_update' = Now(all_vehicles[t])
    /\ pc' = [pc EXCEPT ![t] = ReturnTo(t)]
    /\ lastEmit' = NoEvent
    /\ UNCHANGED << responses, frame, hash >>
    /\ UNCHANGED << api_keys, vehicles, heap, is_running, active_connections, all_vehicles,
                    sf_vehicle_ids, vehicles_to_remove, got, loaded, cycles, pub, connected,
                    hist >>

(* --------------------------- Socket.IO events -------------------------- *)
\* a bulk_update payload: the vehicles, the timestamp and the count it carries,
\* and (history) the sender, the code path and the dict object the vehicles were read from
BulkUpdate(t, via, ref, map, ts, count) ==
    [ev |-> "bulk_update", by |-> t, via |-> via, ref |-> ref, vehicles |-> map, ts |-> ts,
     count |-> count]
ErrorEvent(t) == [ev |-> "error", by |-> t, via |-> IF t \in Loops THEN "loop" ELSE "force_update"]
Size(m) == Cardinality(DOMAIN m)

FetchLocalsUnchanged == UNCHANGED << all_vehicles, sf_vehicle_ids, vehicles_to_remove, got >>

\* the try block after fetch_all_data returned: emit bulk_update
EmitAfterFetch(t, next) ==
    /\ lastEmit' =
          BulkUpdate(t, IF t \in Loops THEN "loop" ELSE "force_update", all_vehicles[t],
                     heap[all_vehicles[t]], last_update, Size(heap[all_vehicles[t]]))
    /\ pc' = [pc EXCEPT ![t] = next]
    /\ all_vehicles' = [all_vehicles EXCEPT ![t] = NoRef]
    /\ sf_vehicle_ids' = [sf_vehicle_ids EXCEPT ![t] = {}]
    /\ vehicles_to_remove' = [vehicles_to_remove EXCEPT ![t] = {}]
    /\ got' = [got EXCEPT ![t] = NoGot]
    /\ LET live == Live(vehicles, all_vehicles', loaded)
       IN  /\ heap' = Collect(heap, live)
           /\ pub' = Keep(pub, live)

(* ------------------------- BackgroundUpdater loop ---------------------- *)
\* a loop whose except block is outside the while: the thread ends
LoopEnds == "none"

\* where the loop goes after its except block
AfterExcept == "loop_sleep"

\* while self.is_running: ... fetch_all_data()
LoopCheck(l) ==
    /\ pc[l] = "loop_check"
    /\ IF is_running
       THEN EnterFetch(l)
       ELSE /\ pc' = [pc EXCEPT ![l] = "none"]
            /\ UNCHANGED << all_vehicles, sf_vehicle_ids, vehicles_to_remove, got, cycles >>
    /\ lastEmit' = NoEvent
    /\ UNCHANGED << responses, frame, hash >>
    /\ UNCHANGED << api_keys, vehicles, last_update, heap, is_running, active_connections,
                    loaded, pub, connected, hist >>

\* socketio.emit('bulk_update', ...) in the loop
LoopEmit(l) ==
    /\ pc[l] = "loop_emit"
    /\ EmitAfterFetch(l, "loop_sleep")
    /\ UNCHANGED << responses, frame, hash >>
    /\ UNCHANGED << api_keys, vehicles, last_update, is_running, active_connections,
                    loaded, cycles, connected, hist >>

\* except Exception: socketio.emit('error', ...)
LoopExcept(l) ==
    /\ pc[l] = "loop_except"
    /\ lastEmit' = ErrorEvent(l)
    /\ pc' = [pc EXCEPT ![l] = AfterExcept]
    /\ FetchLocalsUnchanged
    /\ UNCHANGED << responses, frame, hash >>
    /\ UNCHANGED << api_keys, vehicles, last_update, heap, is_running, active_connections,
                    loaded, cycles, pub, connected, hist >>

\* time.sleep(self.update_interval) returns
LoopSleep(l) ==
    /\ pc[l] = "loop_sleep"
    /\ pc' = [pc EXCEPT ![l] = "loop_check"]
    /\ hist' = IF hist = "first" THEN "busy" ELSE hist
    /\ FetchLocalsUnchanged
    /\ lastEmit' = NoEvent
    /\ UNCHANGED << responses, frame, hash >>
    /\ UNCHANGED << api_keys, vehicles, last_update, heap, is_running, active_connections,
                    loaded, cycles, pub, connected >>

(* ----------------------------- handle_connect -------------------------- *)
Min(a, b) == IF a < b THEN a ELSE b
Max(a, b) == IF a > b THEN a ELSE b

HandlersIdle == \A h \in Handlers : pc[h] = "idle"
ConnectPcs == { "c_load", "c_store", "c_test_count", "c_test_running", "start_check",
                "start_set", "fu_call", "fa_sources", "fa_dedup",
                "fa_pub_vehicles", "fa_pub_time", "fu_emit", "fu_except",
                "c_elif", "c_emit_vehicles", "c_emit_time", "c_emit_count" }
NoConnectRunning == \A h \in Handlers : pc[h] \notin ConnectPcs

\* the handler thread the server gives the next event to
FreeHandler(h) == pc[h] = "idle" /\ \A g \in Handlers : pc[g] = "idle" => h[2] <= g[2]

\* the server dispatches a client's connect event to a handler thread
Connect(h) ==
    /\ FreeHandler(h)
    /\ connected < MaxClients
    /\ connected' = connected + 1
    /\ hist' = IF hist = "initial" THEN "first" ELSE "busy"
    /\ pc' = [pc EXCEPT ![h] = "c_load"]
    /\ FetchLocalsUnchanged
    /\ lastEmit' = NoEvent
    /\ UNCHANGED << responses, frame, hash >>
    /\ UNCHANGED << api_keys, vehicles, last_update, heap, is_running, active_connections,
                    loaded, cycles, pub >>

\* active_connections += 1: the read
ConnectLoad(h) ==
    /\ pc[h] = "c_load"
    /\ loaded' = [loaded EXCEPT ![h].count = active_connections]
    /\ pc' = [pc EXCEPT ![h] = "c_store"]
    /\ FetchLocalsUnchanged
    /\ lastEmit' = NoEvent
    /\ UNCHANGED << responses, frame, hash >>
    /\ UNCHANGED << api_keys, vehicles, last_update, heap, is_running, active_connections,
                    cycles, pub, connected, hist >>

\* active_connections += 1: the write
ConnectStore(h) ==
    /\ pc[h] = "c_store"
    /\ loaded[h].count < MaxCount
    /\ active_connections' = loaded[h].count + 1
    /\ loaded' = [loaded EXCEPT ![h] = NoLoaded]
    /\ pc' = [pc EXCEPT ![h] = "c_test_count"]
    /\ FetchLocalsUnchanged
    /\ lastEmit' = NoEvent
    /\ UNCHANGED << responses, frame, hash >>
    /\ UNCHANGED << api_keys, vehicles, last_update, heap, is_running, cycles, pub, connected,
                    hist >>

\* if active_connections == 1 and background_updater ...
ConnectTestCount(h) ==
    /\ pc[h] = "c_test_count"
    /\ pc' = [pc EXCEPT ![h] = IF active_connections = 1 THEN "c_test_running" ELSE "c_elif"]
    /\ FetchLocalsUnchanged
    /\ lastEmit' = NoEvent
    /\ UNCHANGED << responses, frame, hash >>
    /\ UNCHANGED << api_keys, vehicles, last_update, heap, is_running, active_connections,
                    loaded, cycles, pub, connected, hist >>

\* ... and not background_updater.is_running
ConnectTestRunning(h) ==
    /\ pc[h] = "c_test_running"
    /\ pc' = [pc EXCEPT ![h] = IF ~is_running THEN "start_check" ELSE "c_elif"]
    /\ FetchLocalsUnchanged
    /\ lastEmit' = NoEvent
    /\ UNCHANGED << responses, frame, hash >>
    /\ UNCHANGED << api_keys, vehicles, last_update, heap, is_running, active_connections,
                    loaded, cycles, pub, connected, hist >>

\* BackgroundUpdater.start: if self.is_running: return
StartCheck(h) ==
    /\ pc[h] = "start_check"
    /\ pc' = [pc EXCEPT ![h] = IF is_running THEN "fu_call" ELSE "start_set"]
    /\ FetchLocalsUnchanged
    /\ lastEmit' = NoEvent
    /\ UNCHANGED << responses, frame, hash >>
    /\ UNCHANGED << api_keys, vehicles, last_update, heap, is_running, active_connections,
                    loaded, cycles, pub, connected, hist >>

FreeLoops == { l \in Loops : pc[l] = "none" }

\* BackgroundUpdater.start: self.is_running = True; Thread(target=_update_loop).start()
StartSet(h) ==
    /\ pc[h] = "start_set"
    /\ FreeLoops # {}
    /\ is_running' = TRUE
    /\ LET l == CHOOSE x \in FreeLoops : \A y \in FreeLoops : x[2] <= y[2]
       IN  pc' = [pc EXCEPT ![h] = "fu_call", ![l] = "loop_check"]
    /\ FetchLocalsUnchanged
    /\ lastEmit' = NoEvent
    /\ UNCHANGED << responses, frame, hash >>
    /\ UNCHANGED << api_keys, vehicles, last_update, heap, active_connections, loaded, cycles,
                    pub, connected, hist >>

\* force_update() called on its own (its docstring: "useful for testing")
ForceUpdateDirect(h) ==
    /\ pc[h] = "idle"
    /\ EnterFetch(h)
    /\ lastEmit' = NoEvent
    /\ UNCHANGED << responses, frame, hash >>
    /\ UNCHANGED << api_keys, vehicles, last_update, heap, is_running, active_connections,
                    loaded, pub, connected, hist >>

\* background_updater.force_update(): ... fetch_all_data()
ForceUpdateCall(h) ==
    /\ pc[h] = "fu_call"
    /\ EnterFetch(h)
    /\ lastEmit' = NoEvent
    /\ UNCHANGED << responses, frame, hash >>
    /\ UNCHANGED << api_keys, vehicles, last_update, heap, is_running, active_connections,
                    loaded, pub, connected, hist >>

\* force_update: socketio.emit('bulk_update', ...); return True
ForceUpdateEmit(h) ==
    /\ pc[h] = "fu_emit"
    /\ EmitAfterFetch(h, "idle")
    /\ UNCHANGED << responses, frame, hash >>
    /\ UNCHANGED << api_keys, vehicles, last_update, is_running, active_connections,
                    loaded, cycles, connected, hist >>

\* force_update: except Exception: socketio.emit('error', ...); return False
ForceUpdateExcept(h) ==
    /\ pc[h] = "fu_except"
    /\ lastEmit' = ErrorEvent(h)
    /\ pc' = [pc EXCEPT ![h] = "idle"]
    /\ FetchLocalsUnchanged
    /\ UNCHANGED << responses, frame, hash >>
    /\ UNCHANGED << api_keys, vehicles, last_update, heap, is_running, active_connections,
                    loaded, cycles, pub, connected, hist >>

\* elif data_fetcher.vehicles:
ConnectElif(h) ==
    /\ pc[h] = "c_elif"
    /\ pc' = [pc EXCEPT ![h] = IF heap[vehicles] # EmptyMap THEN "c_emit_vehicles" ELSE "idle"]
    /\ FetchLocalsUnchanged
    /\ lastEmit' = NoEvent
    /\ UNCHANGED << responses, frame, hash >>
    /\ UNCHANGED << api_keys, vehicles, last_update, heap, is_running, active_connections,
                    loaded, cycles, pub, connected, hist >>

\* 'vehicles': [vehicle.to_dict() for vehicle in data_fetcher.vehicles.values()]
ConnectEmitVehicles(h) ==
    /\ pc[h] = "c_emit_vehicles"
    /\ loaded' = [loaded EXCEPT ![h].ref = vehicles, ![h].map = heap[vehicles]]
    /\ pc' = [pc EXCEPT ![h] = "c_emit_time"]
    /\ FetchLocalsUnchanged
    /\ lastEmit' = NoEvent
    /\ UNCHANGED << responses, frame, hash >>
    /\ UNCHANGED << api_keys, vehicles, last_update, heap, is_running, active_connections,
                    cycles, pub, connected, hist >>

\* 'timestamp': data_fetcher.last_update.isoformat() if data_fetcher.last_update else None
ConnectEmitTime(h) ==
    /\ pc[h] = "c_emit_time"
    /\ loaded' = [loaded EXCEPT ![h].ts = last_update]
    /\ pc' = [pc EXCEPT ![h] = "c_emit_count"]
    /\ FetchLocalsUnchanged
    /\ lastEmit' = NoEvent
    /\ UNCHANGED << responses, frame, hash >>
    /\ UNCHANGED << api_keys, vehicles, last_update, heap, is_running, active_connections,
                    cycles, pub, connected, hist >>

\* 'count': len(data_fetcher.vehicles); emit('bulk_update', ...)
ConnectEmitCount(h) ==
    /\ pc[h] = "c_emit_count"
    /\ lastEmit' =
          BulkUpdate(h, "connect", loaded[h].ref, loaded[h].map, loaded[h].ts,
                     Size(heap[vehicles]))
    /\ loaded' = [loaded EXCEPT ![h] = NoLoaded]
    /\ LET live == Live(vehicles, all_vehicles, loaded')
       IN  /\ heap' = Collect(heap, live)
           /\ pub' = Keep(pub, live)
    /\ pc' = [pc EXCEPT ![h] = "idle"]
    /\ FetchLocalsUnchanged
    /\ UNCHANGED << responses, frame, hash >>
    /\ UNCHANGED << api_keys, vehicles, last_update, is_running, active_connections,
                    cycles, connected, hist >>

(* ---------------------------- handle_disconnect ------------------------ *)
\* the server dispatches a client's disconnect event to a handler thread
Disconnect(h) ==
    /\ FreeHandler(h)
    /\ connected > 0
    /\ connected' = connected - 1
    /\ hist' = IF hist = "first" THEN "busy" ELSE hist
    /\ pc' = [pc EXCEPT ![h] = "d_load"]
    /\ FetchLocalsUnchanged
    /\ lastEmit' = NoEvent
    /\ UNCHANGED << responses, frame, hash >>
    /\ UNCHANGED << api_keys, vehicles, last_update, heap, is_running, active_connections,
                    loaded, cycles, pub >>

\* active_connections = max(0, active_connections - 1): the read
DisconnectLoad(h) ==
    /\ pc[h] = "d_load"
    /\ loaded' = [loaded EXCEPT ![h].count = active_connections]
    /\ pc' = [pc EXCEPT ![h] = "d_store"]
    /\ FetchLocalsUnchanged
    /\ lastEmit' = NoEvent
    /\ UNCHANGED << responses, frame, hash >>
    /\ UNCHANGED << api_keys, vehicles, last_update, heap, is_running, active_connections,
                    cycles, pub, connected, hist >>

\* active_connections = max(0, active_connections - 1): the write
DisconnectStore(h) ==
    /\ pc[h] = "d_store"
    /\ active_connections' = Max(0, loaded[h].count - 1)
    /\ hist' = IF active_connections = 1 /\ active_connections' = 0 /\ NoConnectRunning
               THEN "quiet" ELSE hist
    /\ loaded' = [loaded EXCEPT ![h] = NoLoaded]
    /\ pc' = [pc EXCEPT ![h] = "d_test_count"]
    /\ FetchLocalsUnchanged
    /\ lastEmit' = NoEvent
    /\ UNCHANGED << responses, frame, hash >>
    /\ UNCHANGED << api_keys, vehicles, last_update, heap, is_running, cycles, pub, connected >>

\* if active_connections == 0 and background_updater ...
DisconnectTestCount(h) ==
    /\ pc[h] = "d_test_count"
    /\ pc' = [pc EXCEPT ![h] = IF active_connections = 0 THEN "d_test_running" ELSE "idle"]
    /\ FetchLocalsUnchanged
    /\ lastEmit' = NoEvent
    /\ UNCHANGED << responses, frame, hash >>
    /\ UNCHANGED << api_keys, vehicles, last_update, heap, is_running, active_connections,
                    loaded, cycles, pub, connected, hist >>

\* ... and background_updater.is_running
DisconnectTestRunning(h) ==
    /\ pc[h] = "d_test_running"
    /\ pc' = [pc EXCEPT ![h] = IF is_running THEN "stop" ELSE "idle"]
    /\ FetchLocalsUnchanged
    /\ lastEmit' = NoEvent
    /\ UNCHANGED << responses, frame, hash >>
    /\ UNCHANGED << api_keys, vehicles, last_update, heap, is_running, active_connections,
                    loaded, cycles, pub, connected, hist >>

\* BackgroundUpdater.stop: self.is_running = False
Stop(h) ==
    /\ pc[h] = "stop"
    /\ is_running' = FALSE
    /\ pc' = [pc EXCEPT ![h] = "idle"]
    /\ FetchLocalsUnchanged
    /\ lastEmit' = NoEvent
    /\ UNCHANGED << responses, frame, hash >>
    /\ UNCHANGED << api_keys, vehicles, last_update, heap, active_connections, loaded, cycles,
                    pub, connected, hist >>

(* ----------------------------- GET /api/vehicles ----------------------- *)
RestResponse(r, ref, map, ts) ==
    [ev |-> "response", by |-> r, via |-> "rest", ref |-> ref, vehicles |-> map, ts |-> ts,
     count |-> Size(map)]

\* vehicles_dict = {vid: vehicle.to_dict() for ... in data_fetcher.vehicles.items()}
GetVehiclesRead(r) ==
    /\ pc[r] = "idle"
    /\ loaded' = [loaded EXCEPT ![r].ref = vehicles, ![r].map = heap[vehicles]]
    /\ pc' = [pc EXCEPT ![r] = "gv_time"]
    /\ FetchLocalsUnchanged
    /\ lastEmit' = NoEvent
    /\ UNCHANGED << responses, frame, hash >>
    /\ UNCHANGED << api_keys, vehicles, last_update, heap, is_running, active_connections,
                    cycles, pub, connected, hist >>

\* a read that goes on to refresh the snapshot
RefreshAfterResponse == "fa_sources"

\* return jsonify(...): the request is over
AfterResponse == "idle"

\* 'lastUpdate': data_fetcher.last_update ...; return jsonify(...)
GetVehiclesRespond(r) ==
    /\ pc[r] = "gv_time"
    /\ lastEmit' = RestResponse(r, loaded[r].ref, loaded[r].map, last_update)
    /\ loaded' = [loaded EXCEPT ![r] = NoLoaded]
    /\ LET live == Live(vehicles, all_vehicles, loaded')
       IN  /\ heap' = Collect(heap, live)
           /\ pub' = Keep(pub, live)
    /\ pc' = [pc EXCEPT ![r] = AfterResponse]
    /\ FetchLocalsUnchanged
    /\ UNCHANGED << responses, frame, hash >>
    /\ UNCHANGED << api_keys, vehicles, last_update, is_running, active_connections,
                    cycles, connected, hist >>

(* ------------------------------ inputs --------------------------------- *)
\* entities per sub-feed response
MaxFeed == 2

\* the api_keys dict the fetcher is constructed with: both sources configured,
\* or the BART entry absent
KeyConfigs == { ("SF_511" :> "key511") @@ ("BART" :> "keybart"), ("SF_511" :> "key511") }

\* api_keys of the fetch-cycle specification: configured or placeholder
KeyConfigsFetch ==
    { ("SF_511" :> k1) @@ ("BART" :> k2) :
        k1 \in {"key511", PLACEHOLDER_511}, k2 \in {"keybart", PLACEHOLDER_BART} }
    \cup { ("SF_511" :> "key511"), ("BART" :> "keybart") }

SeqsUpTo(S, n) == UNION { [1..k -> S] : k \in 0..n }

BartTrain(n) == Vehicle(PREFIX_BART \o <<n>>, "BART")

\* responses while the scheduler is exercised: one vehicle per source, or a failure
SFOne == { Ok511(<< Entity(<<"1">>, "") >>) }
RGOne == { Ok511(<< Entity(<<"1">>, "SF") >>) }
BartOne == { OkBart(<< BartTrain("1") >>) }
SFSmall == SFOne
RGSmall == RGOne
BartSmall == { FailBart } \cup BartOne

\* responses while the fetch cycle is exercised
SFFeeds == { Fail511 } \cup { Ok511(es) : es \in SeqsUpTo({ Entity(v, "") : v \in NativeIds }, MaxFeed) }
RGFeeds == { Fail511 } \cup
           { Ok511(es) : es \in SeqsUpTo({ Entity(v, s) : v \in NativeIds, s \in {"SF", "CT"} }, MaxFeed) }
BartFeeds == { FailBart } \cup BartOne

(* --------------------------- specifications ---------------------------- *)
InitSystem(configs) ==
    /\ api_keys \in configs
    /\ vehicles = 0
    /\ last_update = NoTime
    /\ heap = [r \in Refs |-> EmptyMap]
    /\ is_running = FALSE
    /\ active_connections = 0
    /\ pc = [t \in Threads |-> IF t \in Loops THEN "none" ELSE "idle"]
    /\ all_vehicles = [t \in Threads |-> NoRef]
    /\ sf_vehicle_ids = [t \in Threads |-> {}]
    /\ vehicles_to_remove = [t \in Threads |-> {}]
    /\ got = [t \in Threads |-> NoGot]
    /\ loaded = [t \in Threads |-> NoLoaded]
    /\ lastEmit = NoEvent
    /\ cycles = 0
    /\ pub = [r \in {0} |-> EmptyMap]
    /\ connected = 0
    /\ hist = "initial"

\* no client call is followed on its own while the whole system runs
InitWith(configs) ==
    /\ InitSystem(configs)
    /\ responses = <<>>
    /\ frame = NoFrame
    /\ hash = NoHash

FetchStep(t, sf, rg, bart) ==
    \/ FetchAllSources(t, sf, rg, bart)
    \/ FetchAllDedup(t)
    \/ PublishVehicles(t)
    \/ PublishTime(t)

LoopStep(l) == LoopCheck(l) \/ LoopEmit(l) \/ LoopExcept(l) \/ LoopSleep(l)

ConnectStep(h) ==
    \/ Connect(h) \/ ConnectLoad(h) \/ ConnectStore(h)
    \/ ConnectTestCount(h) \/ ConnectTestRunning(h)
    \/ StartCheck(h) \/ StartSet(h)
    \/ ForceUpdateCall(h) \/ ForceUpdateEmit(h) \/ ForceUpdateExcept(h)
    \/ ConnectElif(h) \/ ConnectEmitVehicles(h) \/ ConnectEmitTime(h) \/ ConnectEmitCount(h)

DisconnectStep(h) ==
    \/ Disconnect(h) \/ DisconnectLoad(h) \/ DisconnectStore(h)
    \/ DisconnectTestCount(h) \/ DisconnectTestRunning(h) \/ Stop(h)

RestStep(r) == GetVehiclesRead(r) \/ GetVehiclesRespond(r)

\* the server with one handler thread: events are handled one at a time, while
\* the update loops and REST requests run beside them
SerialHandlers == { <<"h", 1>> }

Init == InitWith(KeyConfigs)
Next ==
    \/ \E t \in SerialHandlers \cup Loops : FetchStep(t, SFSmall, RGSmall, BartSmall)
    \/ \E l \in Loops : LoopStep(l)
    \/ \E h \in SerialHandlers : ConnectStep(h) \/ DisconnectStep(h)
    \/ \E r \in Readers : RestStep(r)
Spec == Init /\ [][Next]_vars

\* the threaded server: handler threads run concurrently
RaceLoops == { <<"l", 1>> }
InitRace == InitWith(KeyConfigs)
NextRace ==
    \/ \E t \in Handlers \cup RaceLoops : FetchStep(t, SFOne, RGOne, BartOne)
    \/ \E l \in RaceLoops : LoopStep(l)
    \/ \E h \in Handlers : ConnectStep(h) \/ DisconnectStep(h)
SpecRace == InitRace /\ [][NextRace]_vars

\* the fetch cycle on its own: force_update called again and again by one
\* caller, the upstream feeds answering with every response of the feed sets
InitFetch == InitWith(KeyConfigsFetch)
NextFetch ==
    \/ \E h \in SerialHandlers :
          \/ ForceUpdateDirect(h)
          \/ FetchStep(h, SFFeeds, RGFeeds, BartFeeds)
          \/ ForceUpdateEmit(h)
          \/ ForceUpdateExcept(h)
SpecFetch == InitFetch /\ [][NextFetch]_vars

\* one update loop beside one handler thread that takes connects, disconnects
\* and direct force_update calls, each feed answering or failing
SFEither == { Fail511 } \cup SFOne
RGEither == { Fail511 } \cup RGOne
InitLoop == InitWith(KeyConfigs)
NextLoop ==
    \/ \E t \in SerialHandlers \cup RaceLoops : FetchStep(t, SFEither, RGEither, BartSmall)
    \/ \E l \in RaceLoops : LoopStep(l)
    \/ \E h \in SerialHandlers : ConnectStep(h) \/ DisconnectStep(h) \/ ForceUpdateDirect(h)
SpecLoop == InitLoop /\ [][NextLoop]_vars

(* ------------------- a call of fetch_511_gtfs_data -------------------- *)
SystemUnchanged ==
    UNCHANGED << api_keys, vehicles, last_update, heap, is_running, active_connections, pc,
                 all_vehicles, sf_vehicle_ids, vehicles_to_remove, got, loaded, lastEmit,
                 cycles, pub, connected, hist >>

\* session.get raises, or ParseFromString raises on a 200 body
Raises(resp) == resp.raised \/ (resp.status_code = 200 /\ ~resp.decodable)

\* for agency in agencies: try: ... except Exception: ...
ClientTry ==
    /\ frame.pc = "for"
    /\ frame.i <= Len(agencies)
    /\ frame' = [frame EXCEPT
                    !.requested = Append(@, agencies[frame.i]),
                    !.vehicles = @ \o TryAgency(responses[frame.i], agencies[frame.i]),
                    !.i = IF Raises(responses[frame.i]) THEN AfterExcept511(@) ELSE @ + 1]
    /\ UNCHANGED << responses, hash >>
    /\ SystemUnchanged

\* return vehicles
ClientReturn ==
    /\ frame.pc = "for"
    /\ frame.i > Len(agencies)
    /\ frame' = [frame EXCEPT !.pc = "returned"]
    /\ UNCHANGED << responses, hash >>
    /\ SystemUnchanged

\* the entities a sub-feed may hold: one with every field in order, and the
\* ones that differ from it in position, in identity or in route_id
InRange == FeedEntity(TRUE, TRUE, <<"1">>, <<>>, TRUE, <<"3", "8">>, 37, -122)
PositionCases ==
    { [InRange EXCEPT !.latitude = x] : x \in { -91, 90, 91 } } \cup
    { [InRange EXCEPT !.longitude = x] : x \in { -181, 181 } }
IdentityCases ==
    { [InRange EXCEPT !.id = <<>>], [InRange EXCEPT !.id = <<"2">>],
      [InRange EXCEPT !.has_vehicle = FALSE], [InRange EXCEPT !.has_position = FALSE] }
RouteIds ==
    { <<"J">>, <<"P", "H">>, <<"R", "G", ":", "J">>, <<"S", "F", ":", "P", "H">>,
      <<"C", "T", ":", "1", ":", "2">>, <<"C", "C", ":", "X", "-", "1">> }
RouteCases == { [InRange EXCEPT !.route_id = r] : r \in RouteIds }
FallbackCases ==
    { [InRange EXCEPT !.has_route_id = FALSE, !.route_id = <<>>, !.label = <<"J">>],
      [InRange EXCEPT !.has_route_id = FALSE, !.route_id = <<>>] }
RGEntities == { InRange } \cup PositionCases \cup IdentityCases \cup RouteCases \cup FallbackCases
SFEntities ==
    { InRange, [InRange EXCEPT !.route_id = <<"J">>], [InRange EXCEPT !.latitude = 91],
      [InRange EXCEPT !.id = <<>>] }

NetworkError == Response(TRUE, 0, FALSE, <<>>)
HttpError == Response(FALSE, 500, FALSE, <<>>)
DecodeError == Response(FALSE, 200, FALSE, <<>>)
Failures == { NetworkError, HttpError, DecodeError }
\* the SF sub-feed holds at most one entity, the RG sub-feed up to MaxFeed
SFResponses == Failures \cup { Response(FALSE, 200, TRUE, es) : es \in SeqsUpTo(SFEntities, 1) }
RGResponses == Failures \cup { Response(FALSE, 200, TRUE, es) : es \in SeqsUpTo(RGEntities, MaxFeed) }

\* the pure client under every pair of responses
InitClient ==
    /\ InitSystem({ ("SF_511" :> "key511") @@ ("BART" :> "keybart") })
    /\ responses \in { << a, b >> : a \in SFResponses, b \in RGResponses }
    /\ frame = [pc |-> "for", i |-> 1, vehicles |-> <<>>, requested |-> <<>>]
    /\ hash = NoHash
NextClient == ClientTry \/ ClientReturn
SpecClient == InitClient /\ [][NextClient]_vars

(* ------------------------------- claims -------------------------------- *)
FetchPcs == { "fa_sources", "fa_dedup", "fa_pub_vehicles", "fa_pub_time" }
\* positions of a loop thread that is inside an iteration of its while loop
CyclePcs == FetchPcs \cup { "loop_emit", "loop_except" }
LoopsInCycle == { l \in Loops : pc[l] \in CyclePcs }

\* C1: from Idle, one connect makes the scheduler Running and starts exactly one
\* immediate fetch cycle: while that connect is the only event so far and no
\* interval wait has elapsed, at most one fetch_all_data call has started, and
\* once the handler has returned and the loop sleeps, exactly one has.
C1_OneImmediateCycle ==
    hist = "first" =>
        /\ cycles <= 1
        /\ (HandlersIdle /\ (\E l \in Loops : pc[l] = "loop_sleep")) => (is_running /\ cycles = 1)

\* C2: at most one update-loop thread is executing fetch cycles at any time.
C2_NeverDoubleStarted == Cardinality(LoopsInCycle) <= 1

\* C3: whenever no connect or disconnect handler is mid-execution, is_running
\* is true if and only if at least one client is connected.
C3_RunningIffConnected == HandlersIdle => (is_running <=> connected > 0)

\* a loop thread passes its while test and starts a fetch cycle
LoopStartsCycle == \E l \in Loops : pc[l] = "loop_check" /\ pc'[l] = "fa_sources"

\* C4: after the disconnect that takes the subscriber count from 1 to 0 has been
\* handled, and until the next connect is dispatched, no update loop starts a
\* new fetch cycle.
C4_NoCycleWhenNobodyWatches == [][(hist = "quiet" /\ HandlersIdle) => ~LoopStartsCycle]_vars

\* the dict objects that have been published and are still referred to
Published == DOMAIN pub
\* what a reader holds between its two reads
SnapshotReaders == Readers \cup Handlers
Holding(t) == loaded[t].ref # NoRef
\* threads that are still building their private dict
Building == { t \in Threads : pc[t] \in { "fa_sources", "fa_dedup" } }

\* C5: a published record map is never mutated (its content stays what it was
\* when published), the map a cycle is still merging or deduplicating is not
\* the published one and no reader holds it, and what a reader (REST or connect
\* handler) has read and then delivers is one complete published map, its count
\* the size of one complete published map.
C5_SnapshotAtomic ==
    [][ /\ vehicles \in Published
        /\ \A r \in Published : heap[r] = pub[r]
        /\ \A r \in Published \cap DOMAIN pub' : heap'[r] = heap[r]
        /\ \A t \in Building :
              /\ all_vehicles[t] # vehicles
              /\ all_vehicles[t] \notin Published
              /\ \A u \in Threads : loaded[u].ref # all_vehicles[t]
        /\ \A t \in SnapshotReaders : Holding(t) => loaded[t].map = pub[loaded[t].ref]
        /\ (lastEmit' # NoEvent /\ lastEmit'.ev # "error" /\ lastEmit'.via \in { "rest", "connect" }) =>
              /\ \E r \in Published : lastEmit'.vehicles = pub[r]
              /\ \E r \in Published : lastEmit'.count = Size(pub[r])
      ]_vars

\* a reader holds the previous map while a cycle has published a different one
C5_Witness ==
    \E r \in Readers : /\ pc[r] = "gv_time"
                       /\ loaded[r].ref # vehicles
                       /\ loaded[r].map # heap[vehicles]
                       /\ loaded[r].map # EmptyMap

\* the timestamp that belongs to the record map held in dict object ref
Paired(ref, ts) == IF ref = 0 THEN ts = NoTime ELSE ts = Now(ref)

\* C6: what a reader (REST or connect handler) delivers pairs the record map of
\* one cycle with the lastUpdate of that same cycle.
C6_MapAndTimeTogether ==
    (lastEmit # NoEvent /\ lastEmit.ev # "error" /\ lastEmit.via \in { "rest", "connect" }) =>
        Paired(lastEmit.ref, lastEmit.ts)

\* native ids a sub-feed response yields records for
YieldedIds(resp) == { resp.entities[i].vid : i \in 1..Len(resp.entities) }

\* C7: if in one cycle the SF feed and the RG feed both yield a record with
\* native id V, the published snapshot contains sf-V and does not contain rg-V.
C7_DedupPriority ==
    \A h \in Handlers :
        pc[h] = "fa_pub_time" =>
            \A V \in YieldedIds(got[h].sf) \cap YieldedIds(got[h].rg) :
                /\ PREFIX_SF \o V \in DOMAIN heap[vehicles]
                /\ PREFIX_RG \o V \notin DOMAIN heap[vehicles]

AfterDedupPcs == { "fa_pub_vehicles", "fa_pub_time", "fu_emit", "loop_emit" }

\* C8: applied to the map the dedup pass has produced, with the same SF id set,
\* the dedup pass collects nothing to remove and yields the same map.
C8_DedupIdempotent ==
    \A t \in Threads :
        pc[t] \in AfterDedupPcs =>
            /\ VehiclesToRemove(heap[all_vehicles[t]], sf_vehicle_ids[t]) = {}
            /\ Dedup(heap[all_vehicles[t]], sf_vehicle_ids[t]) = heap[all_vehicles[t]]

\* the first pass did remove a record
C8_Witness ==
    \E t \in Threads : pc[t] = "fa_pub_vehicles" /\ vehicles_to_remove[t] # {}

BothConfigured == Requested511 /\ RequestedBart
Ids(vs) == { vs[i].id : i \in 1..Len(vs) }
Records(vs) == { vs[i] : i \in 1..Len(vs) }
Range(m) == { m[k] : k \in DOMAIN m }

AllFailed(g) == BothConfigured /\ ~g.sf.ok /\ ~g.rg.ok /\ ~g.bart.ok

\* C11: a loop cycle in which every configured source failed completes with an
\* empty map built, and what the loop then sends to the subscribers for that
\* cycle is an error event.
C11_AllFailedReported ==
    [][ \A l \in Loops :
          (AllFailed(got[l]) /\ pc[l] = "loop_emit" /\ pc'[l] # pc[l]) =>
              /\ heap[all_vehicles[l]] = EmptyMap
              /\ lastEmit'.ev = "error"
      ]_vars

\* C12: a connect handler that finds the scheduler Running (both sources
\* configured) goes on to send the stored snapshot as a bulk_update, and no step
\* of that handler starts a fetch cycle.
C12_RunningConnectGetsSnapshot ==
    [][ \A h \in Handlers :
          (BothConfigured /\ pc[h] = "c_elif" /\ is_running /\ pc'[h] # pc[h]) =>
              /\ pc'[h] = "c_emit_vehicles"
              /\ cycles' = cycles
      ]_vars

ForcePcs == FetchPcs \cup { "fu_call", "fu_emit", "fu_except" }
\* handler h takes a step of force_update (called directly or by handle_connect)
ForceStep(h) ==
    /\ pc'[h] # pc[h]
    /\ pc[h] \in ForcePcs \/ (pc[h] = "idle" /\ pc'[h] = "fa_sources")

\* C13: no step of force_update changes is_running, the subscriber counter or
\* the position of any loop thread; the call enters fetch_all_data once, never
\* re-enters it, and returns after its emit, whether bulk_update or error.
C13_ForceUpdateFrame ==
    [][ \A h \in Handlers :
          ForceStep(h) =>
              /\ is_running' = is_running
              /\ active_connections' = active_connections
              /\ \A l \in Loops : pc'[l] = pc[l]
              /\ cycles' = IF pc'[h] = "fa_sources" THEN cycles + 1 ELSE cycles
              /\ pc'[h] = "fa_sources" => pc[h] \in { "idle", "fu_call" }
              /\ pc[h] \in FetchPcs => pc'[h] \in FetchPcs \cup { "fu_emit", "fu_except" }
              /\ pc[h] \in { "fu_emit", "fu_except" } => pc'[h] = "idle"
      ]_vars

\* a direct force_update made while Running is about to emit: the only events
\* so far are one connect (two cycles) and this call, the loop is in its first wait
C13_Witness ==
    \E h \in Handlers, l \in Loops :
        /\ pc[h] = "fu_emit" /\ cycles = 3 /\ hist = "first"
        /\ is_running /\ pc[l] = "loop_sleep"

\* handle_disconnect from its write on, run without interference: the counter
\* it stores and the is_running it leaves
DisconnectEffect(count, running) ==
    LET stored == Max(0, count - 1)
    IN  [active_connections |-> stored,
         is_running |-> IF stored = 0 /\ running THEN FALSE ELSE running]

\* C14: active_connections is never negative, and a disconnect handler that
\* has read the counter as 0 (the counter still being 0) leaves it at 0 and
\* leaves is_running as it is.
C14_CounterFloor ==
    /\ active_connections >= 0
    /\ \A h \in Handlers :
          (pc[h] = "d_store" /\ loaded[h].count = 0 /\ active_connections = 0) =>
              DisconnectEffect(loaded[h].count, is_running) =
                  [active_connections |-> 0, is_running |-> is_running]

\* the credential of a source is missing or is the placeholder
Disabled511 == "SF_511" \notin DOMAIN api_keys \/ api_keys["SF_511"] = PLACEHOLDER_511
DisabledBart == "BART" \notin DOMAIN api_keys \/ api_keys["BART"] = PLACEHOLDER_BART
ExceptPcs == { "fu_except", "loop_except" }
MergedPcs == { "fa_dedup", "fa_pub_vehicles", "fa_pub_time", "fu_emit", "loop_emit" }

\* C15: with a source's credential missing or the placeholder, no cycle raises
\* and no error event is sent; the cycle makes no request to that source and
\* its map holds none of that source's records, while the records the other
\* source returned are in it.
C15_DisabledSourceNoOp ==
    (Disabled511 \/ DisabledBart) =>
        /\ lastEmit.ev # "error"
        /\ \A t \in Threads :
              /\ pc[t] \notin ExceptPcs
              /\ pc[t] \in MergedPcs =>
                    LET m == heap[all_vehicles[t]]
                    IN  /\ DisabledBart =>
                              /\ got[t].bart = NoRequest
                              /\ \A k \in DOMAIN m : ~StartsWith(k, PREFIX_BART)
                        /\ Disabled511 =>
                              /\ got[t].sf = NoRequest /\ got[t].rg = NoRequest
                              /\ \A k \in DOMAIN m : StartsWith(k, PREFIX_BART)
                        /\ (DisabledBart /\ ~Disabled511) =>
                              Ids(AgencyVehicles(got[t].sf, "SF")) \subseteq DOMAIN m
                        /\ (Disabled511 /\ ~DisabledBart) =>
                              Range(m) = Records(FetchBart(got[t].bart))

\* the records the client owes for sub-feed i: none when the request ended in
\* one of the three failures, else one per usable entity
Owed(i) ==
    IF responses[i] \in Failures THEN <<>> ELSE ParseFeed(responses[i].entity, agencies[i])

\* C16: inside fetch_511_gtfs_data a failure of one agency sub-feed (HTTP
\* non-200, decode error or network exception), whichever of SF and RG it
\* hits, does not keep the other from being requested: the loop ends only
\* after both were requested, the call then returns, and it returns exactly
\* the records of the sub-feeds that succeeded.
C16_SubFeedIsolation ==
    /\ frame.pc \in { "none", "for", "returned" }
    /\ (frame.pc = "for" /\ frame.i > Len(agencies)) => frame.requested = agencies
    /\ frame.pc = "returned" =>
          /\ frame.requested = agencies
          /\ frame.vehicles = Owed(1) \o Owed(2)

C16_Witness ==
    /\ frame.pc = "returned"
    /\ responses[1] = DecodeError
    /\ Succeeded(responses[2])
    /\ Len(frame.vehicles) = 2

\* C17: every record the 511 client hands on for publication has
\* -90 <= lat <= 90 and -180 <= lng <= 180: an entity whose latitude or
\* longitude is outside these ranges is dropped during parsing.
C17_PositionsInRange ==
    \A k \in 1..Len(frame.vehicles) :
        /\ -90 <= frame.vehicles[k].lat /\ frame.vehicles[k].lat <= 90
        /\ -180 <= frame.vehicles[k].lng /\ frame.vehicles[k].lng <= 180

\* an entity that carries an identity (a non-empty native vehicle id) and a position
IdentifiedAndPositioned(e) == e.has_vehicle /\ e.id # <<>> /\ e.has_position

\* the records the RG pass appended to the client's list (the SF pass's come first)
RGRecords == SubSeq(frame.vehicles, Len(Owed(1)) + 1, Len(frame.vehicles))

\* C18: a regional-feed entity produces a record only if it carries both an
\* identity (a non-empty native vehicle id) and a position: once the RG
\* sub-feed is parsed, the client's RG records are those of the entities that
\* carry both, one each and in feed order, and none has an empty native id.
C18_IdentityAndPosition ==
    (frame.i > Len(agencies) /\ Succeeded(responses[2])) =>
        LET good == SelectSeq(responses[2].entity, IdentifiedAndPositioned)
        IN  /\ RGRecords = [k \in 1..Len(good) |-> ParseVehiclePosition(good[k], AGENCY_RG)]
            /\ \A k \in 1..Len(RGRecords) : RGRecords[k].id # Lower(AGENCY_RG) \o <<"-">>

\* the RG entities the client parses, in feed order
RGKept == SelectSeq(responses[2].entity, Usable)

\* C19: for an entity of the regional feed, a route identifier containing ':'
\* is split at the first ':' only: the part before it is the sub-agency used
\* for kind and agency name, the whole remainder (further ':' included) is
\* the route value, which the record carries display-formatted; a route
\* identifier without ':' keeps RG as sub-agency and the route value whole.
C19_SplitAtFirstSeparator ==
    (frame.i > Len(agencies) /\ Succeeded(responses[2])) =>
        /\ Len(RGRecords) = Len(RGKept)
        /\ \A k \in 1..Len(RGKept) :
              LET rid == RouteIdOf(RGKept[k])
                  rec == RGRecords[k]
              IN  IF \E n \in 1..Len(rid) : rid[n] = ":"
                  THEN \E n \in 1..Len(rid) :
                          /\ rid[n] = ":"
                          /\ \A j \in 1..(n - 1) : rid[j] # ":"
                          /\ LET sub == SubSeq(rid, 1, n - 1)
                                 rest == SubSeq(rid, n + 1, Len(rid))
                             IN  /\ ActualAgency(rid, AGENCY_RG) =
                                       [actual_agency |-> sub, route_id |-> rest]
                                 /\ rec.agency = AgencyName(Join(sub))
                                 /\ rec.type = GetVehicleType(rest, sub)
                                 /\ rec.route = FormatRoute(rest)
                  ELSE /\ ActualAgency(rid, AGENCY_RG) =
                             [actual_agency |-> AGENCY_RG, route_id |-> rid]
                       /\ rec.agency = "Regional"
                       /\ rec.type = GetVehicleType(rid, AGENCY_RG)
                       /\ rec.route = FormatRoute(rid)

C19_Witness ==
    /\ frame.pc = "returned"
    /\ Len(RGKept) = 2
    /\ RouteIdOf(RGKept[1]) = <<"C", "T", ":", "1", ":", "2">>
    /\ RGRecords[1].agency = "Caltrain"
    /\ RGRecords[1].type = "train"
    /\ RGRecords[1].route = <<"1", ":", "2">>
    /\ RouteIdOf(RGKept[2]) = <<"J">>
    /\ RGRecords[2].agency = "Regional"
    /\ RGRecords[2].route = <<"J">>

LightRailCodes == { <<"J">>, <<"K">>, <<"L">>, <<"M">>, <<"N">>, <<"T">> }
CableCarCodes == { <<"P", "H">>, <<"P", "M">>, <<"C", "A">> }

\* C20: kind overrides hold whatever the sub-agency: a record whose route
\* code is in {J,K,L,M,N,T} has kind light-rail and one whose route code is in
\* {PH,PM,CA} has kind cable-car; an entity with route_id "RG:J" gets kind
\* light-rail.
C20_KindOverrides ==
    \A k \in 1..Len(frame.vehicles) :
        /\ frame.vehicles[k].route \in LightRailCodes => frame.vehicles[k].type = "light-rail"
        /\ frame.vehicles[k].route \in CableCarCodes => frame.vehicles[k].type = "cable-car"

(* ------------- _simulate_bart_positions, estimate by estimate ---------- *)
\* estimates one destination's list may hold
MaxEstimates == 3

\* stations: (lat, lng) in units of 0.0001 degree
stations ==
    ("12TH" :> << 378034, -1222711 >>) @@ ("16TH" :> << 377648, -1224095 >>) @@
    ("19TH" :> << 378081, -1222690 >>) @@ ("24TH" :> << 377527, -1224184 >>) @@
    ("ASHB" :> << 378531, -1222701 >>) @@ ("BALB" :> << 377217, -1224474 >>) @@
    ("CIVC" :> << 377795, -1224136 >>) @@ ("COLM" :> << 376847, -1224661 >>) @@
    ("DALY" :> << 377061, -1224694 >>) @@ ("EMBR" :> << 377928, -1223968 >>) @@
    ("GLEN" :> << 377329, -1224340 >>) @@ ("MONT" :> << 377894, -1224014 >>) @@
    ("POWL" :> << 377844, -1224079 >>)

\* str(i) of a slot index
Digits == << "0", "1", "2", "3", "4", "5", "6", "7", "8", "9" >>
Str(i) == Digits[i + 1]

\* a hash that also depends on how many stations the payload holds
HashWithPayload(s, bart_data) ==
    (IF s \in DOMAIN hash THEN hash[s] ELSE 0) + Len(bart_data.station)

\* hash(s): fixed for the life of the process, whatever payload is being read
HashOf(s, bart_data) == IF s \in DOMAIN hash THEN hash[s] ELSE 0

\* the whole list instead of its first two entries
WholeList(estimates) == estimates

\* estimates[:2]
FirstTwo(estimates) == SubSeq(estimates, 1, Min(2, Len(estimates)))

\* Vehicle(...) of lines 208-221, the fields the synthesis claims read
BartVehicle(station_abbr, destination, i, bart_data) ==
    [id |-> "bart-" \o station_abbr \o "-" \o destination \o "-" \o Str(i),
     type |-> "bart-train",
     lat |-> stations[station_abbr][1] + ((HashOf(station_abbr \o Str(i), bart_data) % 100) - 50),
     lng |-> stations[station_abbr][2] + ((HashOf(destination \o Str(i), bart_data) % 100) - 50),
     agency |-> "BART",
     destination |-> destination]

\* for i, estimate in enumerate(estimates[:2]): if estimate.get('minutes') != 'Leaving'
EstimateVehicles(station_abbr, destination, bart_data) ==
    LET taken == FirstTwo(destination.estimate)
        slots == SelectSeq([k \in 1..Len(taken) |-> k - 1],
                           LAMBDA i : taken[i + 1].minutes # "Leaving")
    IN  [k \in 1..Len(slots) |->
            BartVehicle(station_abbr, destination.destination, slots[k], bart_data)]

RECURSIVE Flatten(_)
Flatten(lists) == IF lists = <<>> THEN <<>> ELSE Head(lists) \o Flatten(Tail(lists))

\* for destination in etd_list, for a station of the table
StationVehicles(station, bart_data) ==
    IF station.abbr \in DOMAIN stations
    THEN Flatten([d \in 1..Len(station.etd) |->
                     EstimateVehicles(station.abbr, station.etd[d], bart_data)])
    ELSE <<>>

\* _simulate_bart_positions
SimulateBartPositions(bart_data) ==
    IF bart_data.has_root
    THEN Flatten([k \in 1..Len(bart_data.station) |->
                     StationVehicles(bart_data.station[k], bart_data)])
    ELSE <<>>

\* the etd payloads: one station with one or two destinations, an unknown
\* station next to it, and a payload without 'root'
Estimates == SeqsUpTo({ [minutes |-> m] : m \in { "Leaving", "5" } }, MaxEstimates)
Etd(destination, estimate) == [destination |-> destination, estimate |-> estimate]
Station(abbr, etd) == [abbr |-> abbr, etd |-> etd]
BartData(station) == [has_root |-> TRUE, station |-> station]
TwoDue == << [minutes |-> "5"], [minutes |-> "5"] >>
Payloads ==
    { BartData(<< Station("12TH", << Etd("Daly City", e) >>) >>) : e \in Estimates } \cup
    { BartData(<< Station("12TH", << Etd("Daly City", TwoDue), Etd("Richmond", e) >>) >>) :
        e \in SeqsUpTo({ [minutes |-> "5"] }, MaxEstimates) } \cup
    { BartData(<< Station("ZZZZ", << Etd("Daly City", TwoDue) >>),
                  Station("12TH", << Etd("Daly City", TwoDue) >>) >>),
      [has_root |-> FALSE, station |-> <<>>] }

\* the strings the synthesis hashes for slots 0 and 1, and the values hash may give them
Hashed == { s \o Str(i) : s \in { "12TH", "Daly City", "Richmond" }, i \in 0..1 }
HashValues == { 8, -93 }

NoCall == [bart_data |-> [has_root |-> FALSE, station |-> <<>>], vehicles |-> <<>>, made |-> FALSE]

\* vehicles = self._simulate_bart_positions(data), on the payload of one more cycle
SimulateBart ==
    /\ frame.pc = "bart"
    /\ \E bart_data \in Payloads :
          frame' = [frame EXCEPT
                       !.prev = frame.cur,
                       !.cur = [bart_data |-> bart_data,
                                vehicles |-> SimulateBartPositions(bart_data),
                                made |-> TRUE]]
    /\ UNCHANGED << responses, hash >>
    /\ SystemUnchanged

\* the synthesis under every hash seed, cycle after cycle
InitBart ==
    /\ InitSystem({ ("SF_511" :> "key511") @@ ("BART" :> "keybart") })
    /\ responses = <<>>
    /\ frame = [pc |-> "bart", prev |-> NoCall, cur |-> NoCall]
    /\ hash \in [Hashed -> HashValues]
NextBart == SimulateBart
SpecBart == InitBart /\ [][NextBart]_vars

\* the id the synthesis gives the pseudo-vehicle of a station, destination and slot
IdOf(station_abbr, destination, i) ==
    "bart-" \o station_abbr \o "-" \o destination \o "-" \o Str(i)

\* the pseudo-vehicles a call synthesized for a station, destination and slot
SlotRecords(call, station_abbr, destination, i) ==
    { k \in 1..Len(call.vehicles) : call.vehicles[k].id = IdOf(station_abbr, destination, i) }

\* the station entries of a call's payload that name a station of the table
KnownEntries(call) ==
    { k \in 1..Len(call.bart_data.station) : call.bart_data.station[k].abbr \in DOMAIN stations }

SlotIndices == 0..MaxEstimates

\* C21: for every known station and destination of the payload at most 2
\* pseudo-vehicles are synthesized, they come only from the first two
\* estimates of the list (slot i from estimate i), never from an estimate
\* whose minutes value is 'Leaving', and nothing else is synthesized.
C21_CappedAndSkipsLeaving ==
    frame.pc = "bart" =>
        LET call == frame.cur
        IN  /\ \A k \in KnownEntries(call) :
                  \A d \in 1..Len(call.bart_data.station[k].etd) :
                      LET abbr == call.bart_data.station[k].abbr
                          etd == call.bart_data.station[k].etd[d]
                          est == etd.estimate
                      IN  /\ Cardinality(UNION { SlotRecords(call, abbr, etd.destination, i) :
                                                    i \in SlotIndices }) <= 2
                          /\ \A i \in SlotIndices :
                                Cardinality(SlotRecords(call, abbr, etd.destination, i)) =
                                    IF i < 2 /\ i < Len(est) /\ est[i + 1].minutes # "Leaving"
                                    THEN 1 ELSE 0
            /\ \A n \in 1..Len(call.vehicles) :
                  \E k \in KnownEntries(call) :
                      \E d \in 1..Len(call.bart_data.station[k].etd), i \in SlotIndices :
                          n \in SlotRecords(call, call.bart_data.station[k].abbr,
                                            call.bart_data.station[k].etd[d].destination, i)

C21_Witness ==
    /\ frame.pc = "bart"
    /\ frame.cur.made
    /\ Len(frame.cur.bart_data.station) = 1
    /\ frame.cur.bart_data.station[1].etd[1].estimate =
          << [minutes |-> "Leaving"], [minutes |-> "5"], [minutes |-> "5"] >>
    /\ Len(frame.cur.vehicles) = 1
    /\ frame.cur.vehicles[1].id = IdOf("12TH", "Daly City", 1)

\* C22: for the same station and destination, the pseudo-vehicles synthesized
\* for slot 0 and for slot 1 never have the same (lat, lng) pair.
C22_DistinctSlotsDistinctPositions ==
    frame.pc = "bart" =>
        \A m, n \in 1..Len(frame.cur.vehicles) :
            \A s \in DOMAIN stations, d \in { "Daly City", "Richmond" } :
                (/\ frame.cur.vehicles[m].id = IdOf(s, d, 0)
                 /\ frame.cur.vehicles[n].id = IdOf(s, d, 1)) =>
                    << frame.cur.vehicles[m].lat, frame.cur.vehicles[m].lng >> #
                    << frame.cur.vehicles[n].lat, frame.cur.vehicles[n].lng >>

RestMoves(r) == pc'[r] # pc[r]

\* C24: a REST read of the snapshot is read-only: its steps start no fetch
\* cycle, move no other thread, and leave the stored map reference, the
\* content of the stored map, last_update, the subscriber counter and the
\* scheduler state unchanged; the request then is over. Before the first
\* cycle it returns zero vehicles and a null lastUpdate.
C24_RestReadOnly ==
    [][ \A r \in Readers : RestMoves(r) =>
          /\ pc'[r] \in { "gv_time", "idle" }
          /\ \A t \in Threads \ {r} : pc'[t] = pc[t]
          /\ cycles' = cycles
          /\ vehicles' = vehicles
          /\ heap'[vehicles] = heap[vehicles]
          /\ last_update' = last_update
          /\ active_connections' = active_connections
          /\ is_running' = is_running
          /\ all_vehicles' = all_vehicles
          /\ (pc'[r] = "idle" /\ cycles = 0) =>
                /\ lastEmit'.ev = "response"
                /\ lastEmit'.vehicles = EmptyMap
                /\ lastEmit'.count = 0
                /\ lastEmit'.ts = NoTime ]_vars

C24_Witness ==
    /\ lastEmit.ev = "response"
    /\ lastEmit.count > 0
    /\ is_running
    /\ \E l \in Loops : pc[l] \in FetchPcs

\* the three result sets of a cycle, and the map that inserting them in a
\* given order builds
ResultSF(g) == AgencyVehicles(g.sf, "SF")
ResultRG(g) == AgencyVehicles(g.rg, "RG")
ResultBart(g) == FetchBart(g.bart)
MergeInOrder(a, b, c) == MergeList(MergeList(MergeList(EmptyMap, a), b), c)
Orders(g) ==
    LET sf == ResultSF(g)
        rg == ResultRG(g)
        bart == ResultBart(g)
    IN  { MergeInOrder(sf, rg, bart), MergeInOrder(sf, bart, rg), MergeInOrder(rg, sf, bart),
          MergeInOrder(rg, bart, sf), MergeInOrder(bart, sf, rg), MergeInOrder(bart, rg, sf) }

\* C25: for fixed results of the SF sub-feed, the RG sub-feed and the BART
\* feed, the map after merge, and the snapshot after dedup, is the same
\* whatever order the three result sets are inserted in.
C25_MergeOrderIndependent ==
    \A t \in Threads :
        /\ pc[t] = "fa_dedup" => Orders(got[t]) = { heap[all_vehicles[t]] }
        /\ pc[t] \in AfterDedupPcs =>
              { Dedup(m, sf_vehicle_ids[t]) : m \in Orders(got[t]) } = { heap[all_vehicles[t]] }

\* a published snapshot built from three non-empty result sets, one rg- record removed
C25_Witness ==
    \E t \in Threads :
        /\ pc[t] = "fa_pub_time"
        /\ Len(ResultSF(got[t])) = 2
        /\ Len(ResultRG(got[t])) = 2
        /\ Len(ResultBart(got[t])) = 1
        /\ Size(heap[vehicles]) = 4

\* the map of a cycle as it is when the dedup pass starts
Merged(g) == MergeInOrder(ResultSF(g), ResultRG(g), ResultBart(g))

\* C26: the dedup pass removes a regional record only when it duplicates an
\* SF vehicle: an rg- record of a sub-agency other than SF that is in the
\* map when the pass starts is still there when it ends, even when its
\* native id equals the native id of an SF record of the cycle.
C26_DedupSparesOtherAgencies ==
    \A t \in Threads :
        pc[t] \in AfterDedupPcs =>
            \A k \in DOMAIN Merged(got[t]) :
                (StartsWith(k, PREFIX_RG) /\ Merged(got[t])[k].agency # "SFMTA") =>
                    k \in DOMAIN heap[all_vehicles[t]]

(* ------------------------- download_sfmta_gtfs ------------------------- *)
gtfs_sources == << "511.org API", "Transit.land", "SFMTA Direct (HTTP)" >>
timeouts == << 30, 60, 120 >>

\* what one session.get and the chunked read of its body come to: a 200 body
\* that starts with 'PK', a 200 body that does not, a non-200 status, a
\* requests Timeout, another RequestException, or any other exception (a body
\* over 100MB)
Outcomes == { "zip", "not_zip", "http_error", "timeout", "request_error", "too_large" }

\* a loop that tries the next timeout of the same source after any failure
RetryAnyFailure(source, t, outcome) ==
    IF t < Len(timeouts)
    THEN [source |-> source, t |-> t + 1]
    ELSE [source |-> source + 1, t |-> 1]

\* where the loops go after a request that did not return: continue on a
\* Timeout (the inner for ends after the last timeout), break or the outer
\* except on everything else
NextAttempt(source, t, outcome) ==
    IF outcome = "timeout" /\ t < Len(timeouts)
    THEN [source |-> source, t |-> t + 1]
    ELSE [source |-> source + 1, t |-> 1]

\* response = session.get(source['url'], timeout=timeout, ...) and what follows it
DownloadAttempt ==
    /\ frame.pc = "download"
    /\ frame.source <= Len(gtfs_sources)
    /\ \E outcome \in Outcomes :
          LET request == [source |-> gtfs_sources[frame.source],
                          timeout |-> timeouts[frame.t], outcome |-> outcome]
              next == NextAttempt(frame.source, frame.t, outcome)
          IN  IF outcome = "zip"
              THEN frame' = [frame EXCEPT !.pc = "returned", !.result = "content",
                                          !.made = Append(@, request)]
              ELSE frame' = [frame EXCEPT !.source = next.source, !.t = next.t,
                                          !.made = Append(@, request)]
    /\ UNCHANGED << responses, hash >>
    /\ SystemUnchanged

\* logger.error("All GTFS download sources failed"); return None
DownloadExhausted ==
    /\ frame.pc = "download"
    /\ frame.source > Len(gtfs_sources)
    /\ frame' = [frame EXCEPT !.pc = "returned", !.result = "None"]
    /\ UNCHANGED << responses, hash >>
    /\ SystemUnchanged

InitDownload ==
    /\ InitSystem({ ("SF_511" :> "key511") @@ ("BART" :> "keybart") })
    /\ responses = <<>>
    /\ frame = [pc |-> "download", source |-> 1, t |-> 1, made |-> <<>>, result |-> "pending"]
    /\ hash = NoHash
NextDownload == DownloadAttempt \/ DownloadExhausted
SpecDownload == InitDownload /\ [][NextDownload]_vars

\* position of a source in the preference order
SourceIndex(name) == CHOOSE i \in 1..Len(gtfs_sources) : gtfs_sources[i] = name

\* C27: download_sfmta_gtfs makes at most 9 requests (3 sources in their
\* fixed order, each with the timeouts 30, 60, 120 in turn); a request goes
\* to the same source as the one before it, with the next timeout, only
\* after a timeout, and to the next source with timeout 30 after any other
\* failure or after the third timeout; the first valid ZIP ends the call,
\* which returns it; the call returns None only when every source is
\* exhausted; and while neither has happened the call still has a request
\* to make.
C27_BoundedRetry ==
    (frame.pc \in { "download", "returned" }) =>
        /\ Len(frame.made) <= Len(gtfs_sources) * Len(timeouts)
        /\ frame.made # <<>> => (frame.made[1].source = gtfs_sources[1] /\ frame.made[1].timeout = 30)
        /\ \A k \in 1..(Len(frame.made) - 1) :
              LET a == frame.made[k]
                  b == frame.made[k + 1]
              IN  /\ a.outcome # "zip"
                  /\ IF a.outcome = "timeout" /\ a.timeout # 120
                     THEN /\ b.source = a.source
                          /\ \E i \in 1..2 : a.timeout = timeouts[i] /\ b.timeout = timeouts[i + 1]
                     ELSE /\ SourceIndex(b.source) = SourceIndex(a.source) + 1
                          /\ b.timeout = 30
        /\ frame.result = "content" <=>
              (frame.made # <<>> /\ frame.made[Len(frame.made)].outcome = "zip")
        /\ frame.result = "content" => frame.pc = "returned"
        /\ frame.result = "None" =>
              /\ frame.pc = "returned"
              /\ frame.made # <<>>
              /\ LET z == frame.made[Len(frame.made)]
                 IN  /\ z.source = gtfs_sources[3]
                     /\ z.outcome # "zip"
                     /\ z.outcome = "timeout" => z.timeout = 120
        /\ frame.pc = "download" => (ENABLED DownloadAttempt \/ ENABLED DownloadExhausted)

\* the ninth request returns the ZIP
C27_Witness ==
    /\ frame.pc = "returned"
    /\ frame.result = "content"
    /\ Len(frame.made) = 9

\* C28: every bulk_update payload is internally consistent: its count is the
\* number of entries of its vehicles list, and its vehicles are those of one
\* single published snapshot, whether the update loop, force_update or a
\* connect handler sends it.
C28_PayloadConsistent ==
    [][ lastEmit'.ev = "bulk_update" =>
          /\ lastEmit'.count = Size(lastEmit'.vehicles)
          /\ lastEmit'.ref \in Published
          /\ lastEmit'.vehicles = pub[lastEmit'.ref] ]_vars

\* the threads that are inside fetch_all_data
InFetch == { t \in Threads : pc[t] \in FetchPcs }

\* C29: at most one execution of fetch_all_data is in progress at any time,
\* update loop and force_update included, and the snapshots are published in
\* the order their cycles started: the stored map never goes back to the
\* dict of an earlier cycle.
C29_CyclesNeverOverlap ==
    [][ /\ Cardinality(InFetch) <= 1
        /\ vehicles' >= vehicles ]_vars

\* thread t leaves fetch_all_data by an exception, or runs the except block after it
Failing(t) ==
    \/ pc[t] \in FetchPcs /\ pc'[t] \in ExceptPcs
    \/ pc[t] \in ExceptPcs /\ pc'[t] # pc[t]

\* C30: a cycle that raises before its final assignment leaves the store
\* untouched: the stored reference, the content of the stored map and
\* last_update are after its steps what they were before, the stored map is
\* a published snapshot (the empty one, with a null last_update, when no
\* cycle has published), and what a reader holds is not changed either.
C30_FailedCycleLeavesStore ==
    [][ \A t \in Threads : Failing(t) =>
          /\ vehicles' = vehicles
          /\ last_update' = last_update
          /\ heap'[vehicles] = heap[vehicles]
          /\ heap'[vehicles] = pub'[vehicles]
          /\ vehicles = 0 => (heap'[vehicles] = EmptyMap /\ last_update' = NoTime)
          /\ \A r \in SnapshotReaders \ {t} : loaded'[r] = loaded[r] ]_vars

\* the KeyError for 'BART' comes after the 511 records were merged into the
\* cycle's dict; a reader is between its two reads
C30_Witness ==
    /\ "BART" \notin DOMAIN api_keys
    /\ cycles >= 2
    /\ \E l \in Loops : pc[l] = "loop_except"
    /\ \E r \in Readers : pc[r] = "gv_time"

====
